---------------------------- MODULE Spec2Model ----------------------------
(***************************************************************************)
(* A model of the shoutbox Go client library: the REST transport            *)
(* (shoutbox/client.go) and the SMTP transport (shoutbox/smtp.go).          *)
(*                                                                          *)
(* One behaviour of Spec is one SendEmail call on one transport; RestSpec    *)
(* is the REST call alone, with the fairness of its timers; FaultSpec is    *)
(* the SMTP call over a writer that can fail; HelperSpec is one call of a   *)
(* helper (shoutbox/helpers.go); ConcSpec is two calls sharing a client.    *)
(* Text is a sequence of atoms (a chunk of characters, or a single          *)
(* character where the code looks at characters); byte content is a         *)
(* sequence of 0..255.                                                      *)
(***************************************************************************)
EXTENDS Integers, Sequences, FiniteSets, TLC

VARIABLES
    transport,  \* "rest": Client.SendEmail, "smtp": SMTPClient.SendEmail
    pc,         \* the position of the call: "start", "do" (REST), "send" (SMTP), "done",
                \* "panic" (the call panicked)
    client,     \* the *Client (REST)
    smtpClient, \* the *SMTPClient (SMTP)
    ctx,        \* the context.Context passed to Client.SendEmail
    req,        \* the *EmailRequest passed to Client.SendEmail
    msg,        \* the *EmailMessage passed to SMTPClient.SendEmail
    httpReq,    \* the *http.Request built by Client.SendEmail
    buffer,     \* the bytes.Buffer of SMTPClient.SendEmail
    resp,       \* the *http.Response http.Client.Do returned
    outcome,    \* what the call met: nothing yet ("none"), a step of the construction failing
                \* ("construction"), the network call not completing ("transport"), the
                \* peer answering ("peer")
    network,    \* the calls handed to the network (http.Client.Do, smtp.SendMail), in order
    err,        \* the error SendEmail returns (NilErr: nil)
    ctxErr,     \* ctx.Err(): "nil" until the context is cancelled or its deadline passes
    dropped,    \* the errors SMTPClient.SendEmail was returned and did not look at
    helper,     \* the call of a helper of helpers.go: its arguments and what it returned
    calls       \* the SendEmail calls running on one shared client, each with its locals

vars == <<transport, pc, client, smtpClient, ctx, req, msg, httpReq, buffer, resp,
          outcome, network, err, ctxErr, dropped, helper, calls>>

----------------------------------------------------------------------------
(* Bounds of the model *)

\* most entries of the custom header map of a request or message
MaxHeaders == 1
\* most attachments of a message
MaxAttachments == 2
\* most bytes of an attachment's content
MaxContentLen == 3
\* most recipients of a message
MaxRecipients == 2
\* most addresses of a list given to ValidateEmailList
MaxEmails == 3

----------------------------------------------------------------------------
(* Text *)

Range(s) == {s[i] : i \in 1..Len(s)}

\* strings.Contains: sub occurs in s as a contiguous run
Contains(s, sub) ==
    \E i \in 0..(Len(s) - Len(sub)) :
        \A j \in 1..Len(sub) : s[i + j] = sub[j]

Digit(d) == <<"0", "1", "2", "3", "4", "5", "6", "7", "8", "9">>[d + 1]

RECURSIVE Itoa(_)
\* the %d verb: the decimal digits of n >= 0
Itoa(n) == IF n < 10 THEN <<Digit(n)>> ELSE Itoa(n \div 10) \o <<Digit(n % 10)>>

\* a byte that is not valid UTF-8, and the replacement rune U+FFFD
BadByte == "\\xff"
RuneError == "\\ufffd"

ValidUTF8(s) == BadByte \notin Range(s)

----------------------------------------------------------------------------
(* Errors *)

NilErr == [label |-> "", msg |-> <<>>, cause |-> "nil"]

\* fmt.Errorf(label + verb, arg): cause is the wrapped error (%w), "none" without
Errorf(label, arg, cause) == [label |-> label, msg |-> <<label>> \o arg, cause |-> cause]

\* the errors of a context that is done
ContextErrors == {"context canceled", "context deadline exceeded"}

\* the error of http.Client.Do when the Timeout of the client has passed
ClientTimeoutExceeded == "context deadline exceeded (Client.Timeout exceeded while awaiting headers)"

\* the errors of http.Client.Do that come of the network
NetworkFailures == {"dial tcp: lookup api.shoutbox.net: no such host",
                    "dial tcp: connect: connection refused"}

DoFailures == ContextErrors \cup NetworkFailures \cup {ClientTimeoutExceeded}

----------------------------------------------------------------------------
(* JSON values *)

NoMembers == [k \in {} |-> <<>>]
JNull == [kind |-> "null", str |-> <<>>, obj |-> NoMembers]
JString(s) == [kind |-> "string", str |-> s, obj |-> NoMembers]
JNumber(n) == [kind |-> "number", str |-> Itoa(n), obj |-> NoMembers]
JArray == [kind |-> "array", str |-> <<>>, obj |-> NoMembers]
JObject(members) == [kind |-> "object", str |-> <<>>, obj |-> members]

----------------------------------------------------------------------------
(* REST transport: shoutbox/client.go *)

APIKey == <<"key-1">>

\* NewClient(apiKey)
NewClient(apiKey) ==
    [apiKey |-> apiKey, httpClient |-> [Timeout |-> 0], baseURL |-> <<"https://api.shoutbox.net">>]

NilMap == [isNil |-> TRUE, m |-> NoMembers]
MakeMap(m) == [isNil |-> FALSE, m |-> m]

\* EmailRequest
EmailRequest(from, to, subject, html, name, replyTo, headers) ==
    [isNil |-> FALSE, From |-> from, To |-> to, Subject |-> subject, HTML |-> html,
     Name |-> name, ReplyTo |-> replyTo, Headers |-> headers]

\* a nil *EmailRequest
NilRequest ==
    [isNil |-> TRUE, From |-> <<>>, To |-> <<>>, Subject |-> <<>>, HTML |-> <<>>,
     Name |-> <<>>, ReplyTo |-> <<>>, Headers |-> NilMap]

\* encoding/json writes a string coerced to valid UTF-8: an invalid byte becomes U+FFFD
MarshalString(s) == [i \in 1..Len(s) |-> IF s[i] = BadByte THEN RuneError ELSE s[i]]

\* a variant of OmittedKeys that takes subject to be tagged omitempty as well
OmittedKeysWithSubject(r) ==
    (IF r.Name = <<>> THEN {"name"} ELSE {})
        \cup (IF r.ReplyTo = <<>> THEN {"reply_to"} ELSE {})
        \cup (IF DOMAIN r.Headers.m = {} THEN {"headers"} ELSE {})
        \cup (IF r.Subject = <<>> THEN {"subject"} ELSE {})

\* the fields of EmailRequest tagged omitempty that are empty (string "", map of length 0)
OmittedKeys(r) ==
    (IF r.Name = <<>> THEN {"name"} ELSE {})
        \cup (IF r.ReplyTo = <<>> THEN {"reply_to"} ELSE {})
        \cup (IF DOMAIN r.Headers.m = {} THEN {"headers"} ELSE {})

MarshalKeys(r) == {"from", "to", "subject", "html", "name", "reply_to", "headers"} \ OmittedKeys(r)

MarshalMember(r, k) ==
    CASE k = "from" -> JString(MarshalString(r.From))
      [] k = "to" -> JString(MarshalString(r.To))
      [] k = "subject" -> JString(MarshalString(r.Subject))
      [] k = "html" -> JString(MarshalString(r.HTML))
      [] k = "name" -> JString(MarshalString(r.Name))
      [] k = "reply_to" -> JString(MarshalString(r.ReplyTo))
      [] k = "headers" ->
            JObject([hk \in {MarshalString(x) : x \in DOMAIN r.Headers.m} |->
                        LET x == CHOOSE x \in DOMAIN r.Headers.m : MarshalString(x) = hk
                        IN  MarshalString(r.Headers.m[x])])

\* json.Marshal(req) of a *EmailRequest: the field tags of EmailRequest
Marshal(r) ==
    IF r.isNil THEN JNull
    ELSE JObject([k \in MarshalKeys(r) |-> MarshalMember(r, k)])

\* http.NewRequestWithContext fails on a nil context
NewRequestErr(c) == IF c = "nil" THEN "net/http: nil Context" ELSE "nil"

NoRequest == [method |-> "", url |-> <<>>, Authorization |-> <<>>, ContentType |-> <<>>, body |-> JNull]

NewRequest(c, jsonData) ==
    [method |-> "POST", url |-> c.baseURL \o <<"/send">>,
     Authorization |-> <<"Bearer ">> \o c.apiKey,
     ContentType |-> <<"application/json">>, body |-> jsonData]

NoBody == [shape |-> "empty", val |-> JNull]
NoResponse == [StatusCode |-> 0, Body |-> NoBody]

StatusOK == 200

\* json.NewDecoder(resp.Body).Decode(&errResp) into struct{Error string `json:"error"`}
Decode(body) ==
    CASE body.shape = "empty" -> [ok |-> FALSE, Error |-> <<>>]
      [] body.shape = "garbage" -> [ok |-> FALSE, Error |-> <<>>]
      [] OTHER ->
          CASE body.val.kind = "null" -> [ok |-> TRUE, Error |-> <<>>]
            [] body.val.kind = "object" ->
                IF "error" \notin DOMAIN body.val.obj THEN [ok |-> TRUE, Error |-> <<>>]
                ELSE LET e == body.val.obj["error"]
                     IN  CASE e.kind = "string" -> [ok |-> TRUE, Error |-> e.str]
                           [] e.kind = "null" -> [ok |-> TRUE, Error |-> <<>>]
                           [] OTHER -> [ok |-> FALSE, Error |-> <<>>]
            [] OTHER -> [ok |-> FALSE, Error |-> <<>>]

\* the error for a response whose status is not 200 and whose body decoded
APIError(status, errResp) == Errorf("api error: ", errResp.Error, "none")

\* a variant of StatusError that leaves the status out of the message
StatusErrorWithoutCode(status) == Errorf("error response", <<>>, "none")

\* the error for a response whose status is not 200 and whose body did not decode
StatusError(status) == Errorf("error response with status ", Itoa(status), "none")

\* a variant of ResponseResult that takes every 2xx status for a success
ResponseResultAny2xx(status, body) ==
    IF status < 200 \/ status > 299
    THEN LET errResp == Decode(body)
         IN  IF ~errResp.ok THEN StatusError(status) ELSE APIError(status, errResp)
    ELSE NilErr

\* client.go lines 64-74: the result for a response
ResponseResult(status, body) ==
    IF status # StatusOK
    THEN LET errResp == Decode(body)
         IN  IF ~errResp.ok THEN StatusError(status) ELSE APIError(status, errResp)
    ELSE NilErr

\* a variant of SendRequestError that formats the cause and does not wrap it
SendRequestErrorUnwrapped(cause) == Errorf("error sending request: ", <<cause>>, "none")

\* the error for a failed http.Client.Do
SendRequestError(cause) == Errorf("error sending request: ", <<cause>>, cause)

----------------------------------------------------------------------------
(* Characters: header keys and base64 text are sequences of single characters *)

\* the printable ASCII characters, in code order from 32 (space); "grave" stands for
\* the grave accent (code 96)
Ascii ==
    <<
      " ", "!", "\"", "#", "$", "%", "&", "'", "(", ")", "*", "+", ",", "-", ".", "/",
      "0", "1", "2", "3", "4", "5", "6", "7", "8", "9", ":", ";", "<", "=", ">", "?",
      "@", "A", "B", "C", "D", "E", "F", "G", "H", "I", "J", "K", "L", "M", "N", "O",
      "P", "Q", "R", "S", "T", "U", "V", "W", "X", "Y", "Z", "[", "\\", "]", "^", "_",
      "grave", "a", "b", "c", "d", "e", "f", "g", "h", "i", "j", "k", "l", "m", "n", "o",
      "p", "q", "r", "s", "t", "u", "v", "w", "x", "y", "z", "{", "|", "}", "~"
    >>

AsciiSet == Range(Ascii)
OrdTable == [c \in AsciiSet |-> 31 + (CHOOSE i \in 1..Len(Ascii) : Ascii[i] = c)]
Ord(c) == OrdTable[c]
Chr(n) == Ascii[n - 31]
IsAscii(c) == c \in AsciiSet

IsLower(c) == IsAscii(c) /\ Ord(c) >= Ord("a") /\ Ord(c) <= Ord("z")
IsUpper(c) == IsAscii(c) /\ Ord(c) >= Ord("A") /\ Ord(c) <= Ord("Z")
IsDigit(c) == IsAscii(c) /\ Ord(c) >= Ord("0") /\ Ord(c) <= Ord("9")

\* textproto: const toLower = 'a' - 'A'
toLower == Ord("a") - Ord("A")

\* textproto.validHeaderFieldByte: the token characters of RFC 7230
validHeaderFieldByte(c) ==
    IsLower(c) \/ IsUpper(c) \/ IsDigit(c)
        \/ c \in {"!", "#", "$", "%", "&", "'", "*", "+", "-", ".", "^", "_", "grave", "|", "~"}

\* textproto.CanonicalMIMEHeaderKey: a key with a byte that is no token character is
\* returned unchanged; otherwise the first letter and every letter after a hyphen is
\* upper case and every other letter lower case
CanonicalMIMEHeaderKey(s) ==
    IF \E i \in 1..Len(s) : ~validHeaderFieldByte(s[i]) THEN s
    ELSE [i \in 1..Len(s) |->
            LET upper == (i = 1) \/ s[i - 1] = "-"
            IN  IF upper /\ IsLower(s[i]) THEN Chr(Ord(s[i]) - toLower)
                ELSE IF ~upper /\ IsUpper(s[i]) THEN Chr(Ord(s[i]) + toLower)
                ELSE s[i]]

RECURSIVE LexLess(_, _)
\* the order of Go strings of ASCII characters
LexLess(a, b) ==
    IF a = <<>> THEN b # <<>>
    ELSE IF b = <<>> THEN FALSE
    ELSE IF a[1] = b[1] THEN LexLess(Tail(a), Tail(b))
    ELSE Ord(a[1]) < Ord(b[1])

RECURSIVE SortedKeys(_)
\* slices.Sorted(maps.Keys(header))
SortedKeys(S) ==
    IF S = {} THEN <<>>
    ELSE LET m == CHOOSE x \in S : \A y \in S \ {x} : LexLess(x, y)
         IN  <<m>> \o SortedKeys(S \ {m})

\* the sequences that list every member of S once: the orders a range over a Go map
\* may produce
RECURSIVE Orders(_)
Orders(S) ==
    IF S = {} THEN {<<>>}
    ELSE UNION {{<<x>> \o o : o \in Orders(S \ {x})} : x \in S}

RECURSIVE Join(_, _)
\* strings.Join(elems, sep)
Join(elems, sep) ==
    IF elems = <<>> THEN <<>>
    ELSE IF Len(elems) = 1 THEN elems[1]
    ELSE elems[1] \o <<sep>> \o Join(Tail(elems), sep)

\* the %q verb (strconv.Quote) and its inverse (strconv.Unquote)
QuoteAtom(a) ==
    CASE a = "\"" -> "\\\""
      [] a = "\\" -> "\\\\"
      [] a = BadByte -> "\\\\xff"
      [] OTHER -> a

Quote(s) == <<"\"">> \o [i \in 1..Len(s) |-> QuoteAtom(s[i])] \o <<"\"">>

UnquoteAtom(a) ==
    CASE a = "\\\"" -> "\""
      [] a = "\\\\" -> "\\"
      [] a = "\\\\xff" -> BadByte
      [] OTHER -> a

IsQuoted(s) ==
    /\ Len(s) >= 2
    /\ s[1] = "\""
    /\ s[Len(s)] = "\""
    /\ \A i \in 2..(Len(s) - 1) : s[i] \notin {"\"", "\\"}

Unquote(s) == [i \in 1..(Len(s) - 2) |-> UnquoteAtom(s[i + 1])]

----------------------------------------------------------------------------
(* encoding/base64, StdEncoding *)

encodeStd ==
    <<
      "A", "B", "C", "D", "E", "F", "G", "H", "I", "J", "K", "L", "M", "N", "O", "P",
      "Q", "R", "S", "T", "U", "V", "W", "X", "Y", "Z", "a", "b", "c", "d", "e", "f",
      "g", "h", "i", "j", "k", "l", "m", "n", "o", "p", "q", "r", "s", "t", "u", "v",
      "w", "x", "y", "z", "0", "1", "2", "3", "4", "5", "6", "7", "8", "9", "+", "/"
    >>

\* the bytes a streaming encoder has not yet written: those after the last full
\* group of three
Leftover(content) == SubSeq(content, Len(content) - (Len(content) % 3) + 1, Len(content))

EncodeGroup(b1, b2, b3) ==
    LET n == b1 * 65536 + b2 * 256 + b3
    IN  <<encodeStd[(n \div 262144) + 1], encodeStd[((n \div 4096) % 64) + 1],
          encodeStd[((n \div 64) % 64) + 1], encodeStd[(n % 64) + 1]>>

RECURSIVE EncodeFull(_)
\* encoder.Write: every full group of three bytes, as four characters
EncodeFull(content) ==
    IF Len(content) < 3 THEN <<>>
    ELSE EncodeGroup(content[1], content[2], content[3])
            \o EncodeFull(SubSeq(content, 4, Len(content)))

\* encoder.Close: the last one or two bytes, padded with "="
EncodeRest(rest) ==
    CASE Len(rest) = 1 -> SubSeq(EncodeGroup(rest[1], 0, 0), 1, 2) \o <<"=", "=">>
      [] Len(rest) = 2 -> SubSeq(EncodeGroup(rest[1], rest[2], 0), 1, 3) \o <<"=">>
      [] OTHER -> <<>>

\* base64.NewEncoder(base64.StdEncoding, part); Write(content); Close()
\* the encoder left unclosed: the leftover bytes are never flushed
Base64EncodeUnclosed(content) == EncodeFull(content)

Base64Encode(content) == EncodeFull(content) \o EncodeRest(Leftover(content))

B64Index(c) == (CHOOSE i \in 1..64 : encodeStd[i] = c) - 1
IsB64Char(c) == \E i \in 1..64 : encodeStd[i] = c

\* a text base64.StdEncoding.DecodeString accepts
IsBase64(text) ==
    /\ Len(text) % 4 = 0
    /\ \A i \in 1..Len(text) :
          \/ IsB64Char(text[i])
          \/ /\ text[i] = "="
             /\ i >= Len(text) - 1
             /\ (i = Len(text) - 1 => text[Len(text)] = "=")

RECURSIVE Base64Decode(_)
\* base64.StdEncoding.DecodeString
Base64Decode(text) ==
    IF Len(text) < 4 THEN <<>>
    ELSE LET pad == Cardinality({i \in 3..4 : text[i] = "="})
             v(i) == IF text[i] = "=" THEN 0 ELSE B64Index(text[i])
             n == v(1) * 262144 + v(2) * 4096 + v(3) * 64 + v(4)
             bytes == <<n \div 65536, (n \div 256) % 256, n % 256>>
         IN  SubSeq(bytes, 1, 3 - pad) \o Base64Decode(SubSeq(text, 5, Len(text)))

----------------------------------------------------------------------------
(* SMTP transport: shoutbox/smtp.go *)

CRLF == "\r\n"

\* the header names the code writes, character by character
KeyFrom == <<"F", "r", "o", "m">>
KeyTo == <<"T", "o">>
KeySubject == <<"S", "u", "b", "j", "e", "c", "t">>
KeyMIMEVersion == <<"M", "I", "M", "E", "-", "V", "e", "r", "s", "i", "o", "n">>
KeyContentType == <<"C", "o", "n", "t", "e", "n", "t", "-", "T", "y", "p", "e">>
KeyReplyTo == <<"R", "e", "p", "l", "y", "-", "T", "o">>
KeyContentTransferEncoding == <<"C", "o", "n", "t", "e", "n", "t", "-", "T", "r", "a", "n", "s", "f", "e", "r", "-", "E", "n", "c", "o", "d", "i", "n", "g">>
KeyContentDisposition == <<"C", "o", "n", "t", "e", "n", "t", "-", "D", "i", "s", "p", "o", "s", "i", "t", "i", "o", "n">>

\* smtp.PlainAuth(identity, username, password, host)
PlainAuth(identity, username, password, host) ==
    [identity |-> identity, username |-> username, password |-> password, host |-> host]

\* a variant of NewSMTPClient whose Auth is built without the key
NewSMTPClientAuthWithoutKey(apiKey) ==
    LET host == <<"mail.shoutbox.net">>
    IN  [Host |-> host, Port |-> 587, Username |-> <<"shoutbox">>, Password |-> apiKey,
         Auth |-> PlainAuth(<<>>, <<"shoutbox">>, <<>>, host)]

\* NewSMTPClient(apiKey)
NewSMTPClient(apiKey) ==
    LET host == <<"mail.shoutbox.net">>
    IN  [Host |-> host, Port |-> 587, Username |-> <<"shoutbox">>, Password |-> apiKey,
         Auth |-> PlainAuth(<<>>, <<"shoutbox">>, apiKey, host)]

\* Attachment
Attachment(filename, content, contentType) ==
    [Filename |-> filename, Content |-> content, ContentType |-> contentType]

\* EmailMessage
EmailMessage(from, to, subject, html, name, replyTo, attachments, headers) ==
    [isNil |-> FALSE, From |-> from, To |-> to, Subject |-> subject, HTML |-> html,
     Name |-> name, ReplyTo |-> replyTo, Attachments |-> attachments, Headers |-> headers]

\* a nil *EmailMessage
NilMessage ==
    [isNil |-> TRUE, From |-> <<>>, To |-> <<>>, Subject |-> <<>>, HTML |-> <<>>,
     Name |-> <<>>, ReplyTo |-> <<>>, Attachments |-> <<>>, Headers |-> NilMap]

\* formatAddress(email, name)
formatAddress(email, name) ==
    IF name = <<>> THEN email ELSE name \o <<" <">> \o email \o <<">">>

\* textproto.MIMEHeader{}: canonical key -> list of values
EmptyMIMEHeader == [k \in {} |-> <<>>]

\* MIMEHeader.Add(key, value): the value is appended to those of the key
Add(h, key, value) ==
    LET ck == CanonicalMIMEHeaderKey(key)
    IN  [k \in DOMAIN h \cup {ck} |->
            IF k = ck THEN (IF ck \in DOMAIN h THEN Append(h[ck], value) ELSE <<value>>)
            ELSE h[k]]

\* MIMEHeader.Set(key, value)
Set(h, key, value) ==
    LET ck == CanonicalMIMEHeaderKey(key)
    IN  [k \in DOMAIN h \cup {ck} |-> IF k = ck THEN <<value>> ELSE h[k]]

\* smtp.go lines 59-68: the headers the code sets itself
StandardHeaders(m, b) ==
    LET h1 == Set(EmptyMIMEHeader, KeyFrom, formatAddress(m.From, m.Name))
        h2 == Set(h1, KeyTo, Join(m.To, ", "))
        h3 == Set(h2, KeySubject, m.Subject)
        h4 == Set(h3, KeyMIMEVersion, <<"1.0">>)
        h5 == Set(h4, KeyContentType, <<"multipart/mixed; boundary=">> \o b)
    IN  IF m.ReplyTo # <<>> THEN Set(h5, KeyReplyTo, m.ReplyTo) ELSE h5

RECURSIVE AddCustomHeaders(_, _, _)
\* smtp.go lines 71-73: range over msg.Headers, in the order the map yields
AddCustomHeaders(h, custom, order) ==
    IF order = <<>> THEN h
    ELSE AddCustomHeaders(Set(h, order[1], custom[order[1]]), custom, Tail(order))

RECURSIVE WriteValues(_, _)
WriteValues(key, values) ==
    IF values = <<>> THEN <<>>
    ELSE key \o <<": ">> \o values[1] \o <<CRLF>> \o WriteValues(key, Tail(values))

RECURSIVE WriteHeaders(_, _)
\* smtp.go lines 76-80: one "key: value" line per value, keys in the given order
WriteHeaders(h, order) ==
    IF order = <<>> THEN <<>>
    ELSE WriteValues(order[1], h[order[1]]) \o WriteHeaders(h, Tail(order))

\* multipart.Writer.CreatePart: the delimiter, the part's headers sorted by key, a
\* blank line
CreatePart(b, first, header) ==
    (IF first THEN <<"--">> ELSE <<CRLF, "--">>) \o b \o <<CRLF>>
        \o WriteHeaders(header, SortedKeys(DOMAIN header)) \o <<CRLF>>

\* multipart.Writer.Close: the closing delimiter
WriterClose(b) == <<CRLF, "--">> \o b \o <<"--", CRLF>>

\* quoted-printable encoding of a text: "=" and the bytes above 127 become "=" and
\* two hexadecimal digits
QuotedPrintable(text) ==
    [i \in 1..Len(text) |->
        IF text[i] = "=" THEN "=3D" ELSE IF text[i] = BadByte THEN "=FF" ELSE text[i]]

\* a variant of the HTML part that encodes the HTML as its label says
HTMLPartQuotedPrintable(m, b) ==
    CreatePart(b, TRUE,
               (KeyContentType :> << <<"text/html; charset=UTF-8">> >>)
                   @@ (KeyContentTransferEncoding :> << <<"quoted-printable">> >>))
        \o QuotedPrintable(m.HTML)

\* smtp.go lines 84-91
HTMLPart(m, b) ==
    CreatePart(b, TRUE,
               (KeyContentType :> << <<"text/html; charset=UTF-8">> >>)
                   @@ (KeyContentTransferEncoding :> << <<"quoted-printable">> >>))
        \o m.HTML

\* smtp.go lines 95-106
AttachmentPart(a, b) ==
    CreatePart(b, FALSE,
               (KeyContentType :> << a.ContentType \o <<"; name=">> \o Quote(a.Filename) >>)
                   @@ (KeyContentDisposition :>
                           << <<"attachment; filename=">> \o Quote(a.Filename) >>)
                   @@ (KeyContentTransferEncoding :> << <<"base64">> >>))
        \o Base64Encode(a.Content)

RECURSIVE AttachmentParts(_, _)
AttachmentParts(as, b) ==
    IF as = <<>> THEN <<>>
    ELSE AttachmentPart(as[1], b) \o AttachmentParts(Tail(as), b)

\* smtp.go lines 59-73: the header map, for boundary b and the order in which the range
\* over msg.Headers yields its keys
Headers(m, b, customOrder) ==
    AddCustomHeaders(StandardHeaders(m, b), m.Headers.m, customOrder)

\* smtp.go lines 81-109: what follows the header lines in buffer
DocumentBody(m, b) ==
    <<CRLF>> \o HTMLPart(m, b) \o AttachmentParts(m.Attachments, b) \o WriterClose(b)

HTMLPartError(cause) == Errorf("error creating HTML part: ", <<cause>>, cause)
AttachmentPartError(cause) == Errorf("error creating attachment part: ", <<cause>>, cause)
SendMailError(cause) == Errorf("error sending email: ", <<cause>>, cause)

\* a variant of the submission whose envelope sender is the address of the From line
SendMailFromHeaderAddress(c, m, data) ==
    [addr |-> c.Host \o <<":">> \o Itoa(c.Port), auth |-> c.Auth,
     from |-> formatAddress(m.From, m.Name), to |-> m.To, msg |-> data]

\* smtp.SendMail(addr, auth, from, to, msg)
SendMail(c, m, data) ==
    [addr |-> c.Host \o <<":">> \o Itoa(c.Port), auth |-> c.Auth,
     from |-> m.From, to |-> m.To, msg |-> data]

----------------------------------------------------------------------------
(* Helpers: shoutbox/helpers.go.  Addresses, paths and extensions are sequences of
   single characters. *)

\* helpers.go lines 52-58
ValidateEmail(email) ==
    IF ~Contains(email, <<"@">>) THEN Errorf("invalid email address: ", email, "none")
    ELSE NilErr

\* a variant of ValidateEmailList that looks at the first member only
ValidateEmailListFirstOnly(emails) ==
    IF emails = <<>> THEN NilErr ELSE ValidateEmail(emails[1])

RECURSIVE ValidateEmailList(_)
\* helpers.go lines 61-68: the error of the first member that has one
ValidateEmailList(emails) ==
    IF emails = <<>> THEN NilErr
    ELSE IF ValidateEmail(emails[1]) # NilErr THEN ValidateEmail(emails[1])
    ELSE ValidateEmailList(Tail(emails))

\* os.IsPathSeparator on Unix
IsPathSeparator(c) == c = "/"

\* filepath.Ext: from the last dot of the last element of the path, empty without one
Ext(path) ==
    LET dots == {i \in 1..Len(path) :
                    path[i] = "." /\ \A j \in i..Len(path) : ~IsPathSeparator(path[j])}
    IN  IF dots = {} THEN <<>>
        ELSE SubSeq(path, CHOOSE i \in dots : \A j \in dots : j <= i, Len(path))

RECURSIVE StripTrailingSlashes(_)
StripTrailingSlashes(path) ==
    IF path # <<>> /\ IsPathSeparator(path[Len(path)])
    THEN StripTrailingSlashes(SubSeq(path, 1, Len(path) - 1))
    ELSE path

\* filepath.Base: the last element of the path
Base(path) ==
    IF path = <<>> THEN <<".">>
    ELSE LET stripped == StripTrailingSlashes(path)
             seps == {i \in 1..Len(stripped) : IsPathSeparator(stripped[i])}
             last == IF seps = {} THEN stripped
                     ELSE SubSeq(stripped, (CHOOSE i \in seps : \A j \in seps : j <= i) + 1,
                                 Len(stripped))
         IN  IF last = <<>> THEN <<"/">> ELSE last

\* strings.ToLower of an ASCII string
ToLower(str) ==
    [i \in 1..Len(str) |-> IF IsUpper(str[i]) THEN Chr(Ord(str[i]) + toLower) ELSE str[i]]

\* the table of package mime: extensions, lower case, and the type of each
mimeTypesLower ==
    (<<".", "p", "d", "f">> :> <<"application/pdf">>)
        @@ (<<".", "p", "n", "g">> :> <<"image/png">>)
        @@ (<<".", "j", "p", "g">> :> <<"image/jpeg">>)
        @@ (<<".", "j", "s", "o", "n">> :> <<"application/json">>)
        @@ (<<".", "h", "t", "m", "l">> :> <<"text/html; charset=utf-8">>)
        @@ (<<".", "c", "s", "s">> :> <<"text/css; charset=utf-8">>)

\* mime.TypeByExtension: the type of the extension, looked up as given and then in
\* lower case; empty when the extension has none
TypeByExtension(ext) ==
    IF ext \in DOMAIN mimeTypesLower THEN mimeTypesLower[ext]
    ELSE IF ToLower(ext) \in DOMAIN mimeTypesLower THEN mimeTypesLower[ToLower(ext)]
    ELSE <<>>

\* a source of bytes: its data, and the failure of reading it ("nil": none) after
\* readBefore bytes were read
Source(data, failure, readBefore) ==
    [data |-> data, failure |-> failure, readBefore |-> readBefore]

\* os.ReadFile and io.ReadAll: the bytes read, and the error that ended the reading
\* (io.EOF is none)
ReadAll(source) ==
    IF source.failure = "nil" THEN [content |-> source.data, err |-> "nil"]
    ELSE [content |-> SubSeq(source.data, 1, source.readBefore), err |-> source.failure]

\* Attachment{}
ZeroAttachment == Attachment(<<>>, <<>>, <<>>)

\* a variant of DetectContentType without the fallback
DetectContentTypeNoFallback(name) == TypeByExtension(Ext(name))

\* helpers.go lines 20-23 and 39-42
DetectContentType(name) ==
    IF TypeByExtension(Ext(name)) = <<>> THEN <<"application/octet-stream">>
    ELSE TypeByExtension(Ext(name))

\* a variant of NewAttachmentFromReader that keeps what was read before the failure
NewAttachmentFromReaderPartial(source, filename) ==
    [attachment |-> Attachment(filename, ReadAll(source).content, DetectContentType(filename)),
     err |-> IF ReadAll(source).err # "nil"
             THEN Errorf("error reading content: ", <<ReadAll(source).err>>, ReadAll(source).err)
             ELSE NilErr]

\* helpers.go lines 13-30; file is what os.ReadFile finds at filePath
NewAttachmentFromFile(filePath, file) ==
    IF ReadAll(file).err # "nil"
    THEN [attachment |-> ZeroAttachment,
          err |-> Errorf("error reading file: ", <<ReadAll(file).err>>, ReadAll(file).err)]
    ELSE [attachment |-> Attachment(Base(filePath), ReadAll(file).content,
                                    DetectContentType(filePath)),
          err |-> NilErr]

\* helpers.go lines 33-49
NewAttachmentFromReader(source, filename) ==
    IF ReadAll(source).err # "nil"
    THEN [attachment |-> ZeroAttachment,
          err |-> Errorf("error reading content: ", <<ReadAll(source).err>>, ReadAll(source).err)]
    ELSE [attachment |-> Attachment(filename, ReadAll(source).content,
                                    DetectContentType(filename)),
          err |-> NilErr]

----------------------------------------------------------------------------
(* The inputs of a call *)

\* custom header keys as the caller spells them, and the value given to each
CustomKeyXId == <<"X", "-", "I", "d">>
CustomKeyContentType == <<"c", "o", "n", "t", "e", "n", "t", "-", "t", "y", "p", "e">>
CustomKeyReplyTo == <<"R", "e", "p", "l", "y", "-", "T", "o">>
CustomKeys == {CustomKeyXId, CustomKeyContentType, CustomKeyReplyTo}

CustomValue(k) ==
    CASE k = CustomKeyXId -> <<"42">>
      [] k = CustomKeyContentType -> <<"text/plain">>
      [] OTHER -> <<"other@z.io">>

\* map[string]string values: nil, empty, and up to MaxHeaders entries
HeaderMaps ==
    {NilMap}
        \cup {MakeMap([k \in K |-> CustomValue(k)]) :
                K \in {K \in SUBSET CustomKeys : Cardinality(K) <= MaxHeaders}}

DefaultFrom == <<"from@x.io">>
DefaultSubject == <<"Hi">>
DefaultHTML == <<"<p>Hi</p>">>
Names == {<<>>, <<"Ann">>}
ReplyTos == {<<>>, <<"reply@x.io">>}
HTMLs == {DefaultHTML, <<"<p>caf", BadByte, "=</p>">>}

Contexts == {"nil", "background", "withCancel"}

Requests ==
    {NilRequest}
        \cup {EmailRequest(DefaultFrom, <<"to@y.io">>, subject, html, name, replyTo, headers) :
                subject \in {<<>>, DefaultSubject}, html \in HTMLs, name \in Names,
                replyTo \in ReplyTos, headers \in HeaderMaps}

Statuses == {200, 201, 204, 400, 429, 500}

Bodies ==
    {NoBody, [shape |-> "garbage", val |-> JNull]}
        \cup {[shape |-> "json", val |-> v] :
                v \in {JNull, JArray, JObject(NoMembers),
                       JObject("error" :> JString(<<"rate limited">>)),
                       JObject("error" :> JString(<<>>)),
                       JObject("error" :> JNumber(42)),
                       JObject("message" :> JString(<<"oops">>))}}

Recipient(i) == <<"to">> \o Itoa(i) \o <<"@y.io">>

RecipientLists ==
    {[i \in 1..n |-> Recipient(i)] : n \in 0..MaxRecipients} \cup {<<Recipient(2), Recipient(1)>>}

SampleBytes == {77, 250}

RECURSIVE ByteStrings(_)
ByteStrings(n) ==
    IF n = 0 THEN {<<>>}
    ELSE ByteStrings(n - 1) \cup {Append(c, x) : c \in {c \in ByteStrings(n - 1) : Len(c) = n - 1}, x \in SampleBytes}

Contents == ByteStrings(MaxContentLen)

ReportPDF == Attachment(<<"report.pdf">>, <<77, 97, 110>>, <<"application/pdf">>)
NotesTXT == Attachment(<<"a ", "\"", "b", "\"", ".txt">>, <<255, 0>>, <<"text/plain; charset=utf-8">>)

RECURSIVE ListsUpTo(_, _)
ListsUpTo(S, n) ==
    IF n = 0 THEN {<<>>}
    ELSE ListsUpTo(S, n - 1) \cup {Append(l, x) : l \in {l \in ListsUpTo(S, n - 1) : Len(l) = n - 1}, x \in S}

\* messages that vary the headers: reply-to and the custom header map
HeaderMessages ==
    {EmailMessage(DefaultFrom, <<Recipient(1)>>, DefaultSubject, DefaultHTML, <<>>, replyTo,
                  <<>>, headers) : replyTo \in ReplyTos, headers \in HeaderMaps}

\* messages that vary the addresses and the body
AddressMessages ==
    {EmailMessage(DefaultFrom, to, DefaultSubject, html, name, <<>>, <<>>, NilMap) :
        to \in RecipientLists, name \in Names, html \in HTMLs}

\* messages that vary the attachments: one attachment of any content, and lists of two
\* given attachments
AttachmentMessages ==
    {EmailMessage(DefaultFrom, <<Recipient(1)>>, DefaultSubject, DefaultHTML, <<>>, <<>>,
                  attachments, NilMap) :
        attachments \in {<<Attachment(<<"data.bin">>, c, <<"application/octet-stream">>)>> :
                            c \in Contents}
                        \cup ListsUpTo({ReportPDF, NotesTXT}, MaxAttachments)}

Messages == {NilMessage} \cup HeaderMessages \cup AddressMessages \cup AttachmentMessages

\* the boundaries multipart.NewWriter may draw
Boundaries == {<<"b1f0">>, <<"9c2e">>}

NoMessage == EmailMessage(<<>>, <<>>, <<>>, <<>>, <<>>, <<>>, <<>>, NilMap)
NoOutcome == [kind |-> "none", detail |-> ""]

MarshalFailures == {"json: unsupported value"}
PartFailures == {"short write"}
SendMailTransportFailures == {"dial tcp: connect: connection refused"}
SendMailRejections == {"550 5.1.1 mailbox unavailable"}

\* addresses given to ValidateEmail: with "@" inside, without, "@" alone, empty
Addresses == {<<"a", "@", "b">>, <<"a", "b">>, <<"@">>, <<>>}
EmailLists == ListsUpTo(Addresses, MaxEmails)

\* paths and file names given to the attachment helpers: d/r.pdf, R.PDF, a.b/c, x.xyz,
\* notes, .png, d/ and the empty name
Paths ==
    {<<"d", "/", "r", ".", "p", "d", "f">>, <<"R", ".", "P", "D", "F">>,
     <<"a", ".", "b", "/", "c">>, <<"x", ".", "x", "y", "z">>, <<"n", "o", "t", "e", "s">>,
     <<".", "p", "n", "g">>, <<"d", "/">>, <<>>}

ReadFailures == {"permission denied"}

\* what a file or a reader holds, and how reading it ends
Sources ==
    {Source(data, "nil", 0) : data \in Contents}
        \cup UNION {{Source(data, f, k) : f \in ReadFailures, k \in 0..Len(data)} :
                        data \in Contents}

NoSource == Source(<<>>, "nil", 0)

\* the call of a helper: the operation, its arguments, and what it returned
HelperCall(op, email, emails, path, source) ==
    [op |-> op, pc |-> "start", email |-> email, emails |-> emails, path |-> path,
     source |-> source, attachment |-> ZeroAttachment, err |-> NilErr]

NoHelper == [HelperCall("none", <<>>, <<>>, <<>>, NoSource) EXCEPT !.pc = "idle"]

HelperCalls ==
    {HelperCall("ValidateEmail", e, <<>>, <<>>, NoSource) : e \in Addresses}
        \cup {HelperCall("ValidateEmailList", <<>>, l, <<>>, NoSource) : l \in EmailLists}
        \cup {HelperCall(op, <<>>, <<>>, path, source) :
                op \in {"NewAttachmentFromFile", "NewAttachmentFromReader"},
                path \in Paths, source \in Sources}

NoCalls == <<>>

\* the SendEmail calls that run on one shared client
CallIds == {1, 2}

\* what the peer did with a submission: nothing yet, the network call failing, an HTTP
\* response, an SMTP rejection or acceptance
NoPeer == [kind |-> "none", cause |-> "", status |-> 0, body |-> NoBody]

Peers(t) ==
    IF t = "rest"
    THEN {[kind |-> "fail", cause |-> c, status |-> 0, body |-> NoBody] :
              c \in {"dial tcp: connect: connection refused"}}
             \cup {[kind |-> "response", cause |-> "", status |-> st, body |-> b] :
                      st \in Statuses, b \in Bodies}
    ELSE {[kind |-> "fail", cause |-> c, status |-> 0, body |-> NoBody] :
              c \in SendMailTransportFailures}
             \cup {[kind |-> "rejected", cause |-> c, status |-> 0, body |-> NoBody] :
                      c \in SendMailRejections}
             \cup {[kind |-> "accepted", cause |-> "", status |-> 0, body |-> NoBody]}

\* the boundary and the orders a call drew while it built its document
NoDraw == [b |-> <<>>, customOrder |-> <<>>, writeOrder |-> <<>>]

\* a SendEmail call: its arguments and its locals
Call(r, m) ==
    [pc |-> "start", req |-> r, msg |-> m, httpReq |-> NoRequest, buffer |-> <<>>,
     draw |-> NoDraw, peer |-> NoPeer, err |-> NilErr]

\* requests and messages of calls that share a client
SharedRequests ==
    {EmailRequest(DefaultFrom, <<"to@y.io">>, DefaultSubject, DefaultHTML, <<>>, <<>>, NilMap),
     EmailRequest(<<"other@x.io">>, <<"to2@y.io">>, <<"Re">>, <<"<p>Re</p>">>, <<"Bob">>,
                  <<"reply@x.io">>, MakeMap(CustomKeyXId :> CustomValue(CustomKeyXId)))}
SharedMessages ==
    {EmailMessage(DefaultFrom, <<Recipient(1)>>, DefaultSubject, DefaultHTML, <<>>, <<>>,
                  <<>>, NilMap),
     EmailMessage(<<"other@x.io">>, <<Recipient(2)>>, <<"Re">>, <<"<p>Re</p>">>, <<"Bob">>,
                  <<>>, <<ReportPDF>>, NilMap)}

RECURSIVE SortedSeq(_)
\* the keys in ascending order
SortedSeq(S) ==
    IF S = {} THEN <<>>
    ELSE LET least == CHOOSE k \in S : \A o \in S : o = k \/ LexLess(k, o)
         IN  <<least>> \o SortedSeq(S \ {least})

Reverse(q) == [i \in 1..Len(q) |-> q[Len(q) + 1 - i]]

\* two of the orders in which a range over a map may yield its keys
SampleOrders(S) == {SortedSeq(S), Reverse(SortedSeq(S))}

----------------------------------------------------------------------------
(* The calls *)

Init ==
    /\ transport \in {"rest", "smtp"}
    /\ pc = "start"
    /\ client = NewClient(APIKey)
    /\ smtpClient = NewSMTPClient(APIKey)
    /\ IF transport = "rest"
       THEN ctx \in Contexts /\ req \in Requests /\ msg = NoMessage
       ELSE ctx = "background" /\ req = NilRequest /\ msg \in Messages
    /\ httpReq = NoRequest
    /\ buffer = <<>>
    /\ resp = NoResponse
    /\ outcome = NoOutcome
    /\ network = <<>>
    /\ err = NilErr
    /\ ctxErr = "nil"
    /\ dropped = <<>>
    /\ helper = NoHelper
    /\ calls = NoCalls

Return(e) ==
    /\ pc' = "done"
    /\ err' = e
    /\ buffer' = <<>>

\* client.go lines 40-43: json.Marshal fails
ClientMarshalFails ==
    /\ transport = "rest" /\ pc = "start"
    /\ \E cause \in MarshalFailures :
          /\ outcome' = [kind |-> "construction", detail |-> cause]
          /\ Return(Errorf("error marshaling request: ", <<cause>>, cause))
    /\ UNCHANGED <<ctxErr, dropped, helper, calls, transport, client, smtpClient, ctx, req, msg, httpReq, resp, network>>

\* client.go lines 40-53: http.NewRequestWithContext fails
ClientNewRequestFails ==
    /\ transport = "rest" /\ pc = "start"
    /\ NewRequestErr(ctx) # "nil"
    /\ outcome' = [kind |-> "construction", detail |-> NewRequestErr(ctx)]
    /\ Return(Errorf("error creating request: ", <<NewRequestErr(ctx)>>, NewRequestErr(ctx)))
    /\ UNCHANGED <<ctxErr, dropped, helper, calls, transport, client, smtpClient, ctx, req, msg, httpReq, resp, network>>

\* client.go lines 40-56: the request is built
ClientBuildRequest ==
    /\ transport = "rest" /\ pc = "start"
    /\ NewRequestErr(ctx) = "nil"
    /\ httpReq' = NewRequest(client, Marshal(req))
    /\ pc' = "do"
    /\ UNCHANGED <<ctxErr, dropped, helper, calls, transport, client, smtpClient, ctx, req, msg, buffer, resp, outcome, network, err>>

\* the context passed to the call is cancelled, or its deadline passes
ContextDone ==
    /\ transport = "rest" /\ pc \in {"start", "do"}
    /\ ctx = "withCancel" /\ ctxErr = "nil"
    /\ ctxErr' \in ContextErrors
    /\ UNCHANGED <<transport, pc, client, smtpClient, ctx, req, msg, httpReq, buffer, resp,
                   outcome, network, err, dropped, helper, calls>>

\* the errors http.Client.Do may return: the error of the context once it is done;
\* before that a failure of the network, or the Timeout of the client when it has one
DoFailuresFor(c, e) ==
    IF e # "nil" THEN {e}
    ELSE NetworkFailures \cup (IF c.httpClient.Timeout > 0 THEN {ClientTimeoutExceeded} ELSE {})

\* client.go lines 58-61: http.Client.Do returns an error
ClientDoFails ==
    /\ transport = "rest" /\ pc = "do"
    /\ network' = Append(network, httpReq)
    /\ \E cause \in DoFailuresFor(client, ctxErr) :
          /\ outcome' = [kind |-> "transport", detail |-> cause]
          /\ Return(SendRequestError(cause))
    /\ UNCHANGED <<ctxErr, dropped, helper, calls, transport, client, smtpClient, ctx, req, msg, httpReq, resp>>

\* client.go lines 58-74: http.Client.Do returns a response, received before the
\* context was done
ClientDoResponds ==
    /\ transport = "rest" /\ pc = "do"
    /\ ctxErr = "nil"
    /\ network' = Append(network, httpReq)
    /\ \E status \in Statuses, body \in Bodies :
          /\ resp' = [StatusCode |-> status, Body |-> body]
          /\ outcome' = [kind |-> "peer", detail |-> "http response"]
          /\ Return(ResponseResult(status, body))
    /\ UNCHANGED <<ctxErr, dropped, helper, calls, transport, client, smtpClient, ctx, req, msg, httpReq>>

\* the HTML part's error is noted, and the message is submitted all the same
SMTPHTMLPartFailsThenSends ==
    /\ transport = "smtp" /\ pc = "start"
    /\ ~msg.isNil
    /\ \E cause \in PartFailures :
          /\ outcome' = [kind |-> "construction", detail |-> cause]
          /\ Return(HTMLPartError(cause))
    /\ network' = Append(network, SendMail(smtpClient, msg, buffer))
    /\ UNCHANGED <<ctxErr, dropped, helper, calls, transport, client, smtpClient, ctx, req, msg, httpReq, resp>>

\* the panic of the Go runtime for a read through a nil pointer
NilDereference == "runtime error: invalid memory address or nil pointer dereference"

\* smtp.go lines 55-60: msg is nil, and reading msg.From panics
SMTPNilMessagePanics ==
    /\ transport = "smtp" /\ pc = "start"
    /\ msg.isNil
    /\ pc' = "panic"
    /\ outcome' = [kind |-> "panic", detail |-> NilDereference]
    /\ UNCHANGED <<ctxErr, dropped, helper, calls, transport, client, smtpClient, ctx, req, msg,
                   httpReq, buffer, resp, network, err>>

\* smtp.go lines 55-90: creating the HTML part fails
SMTPHTMLPartFails ==
    /\ transport = "smtp" /\ pc = "start"
    /\ ~msg.isNil
    /\ \E cause \in PartFailures :
          /\ outcome' = [kind |-> "construction", detail |-> cause]
          /\ Return(HTMLPartError(cause))
    /\ UNCHANGED <<ctxErr, dropped, helper, calls, transport, client, smtpClient, ctx, req, msg, httpReq, resp, network>>

\* smtp.go lines 55-102: creating an attachment's part fails
SMTPAttachmentPartFails ==
    /\ transport = "smtp" /\ pc = "start"
    /\ ~msg.isNil
    /\ \E i \in 1..Len(msg.Attachments), cause \in PartFailures :
          /\ outcome' = [kind |-> "construction", detail |-> cause]
          /\ Return(AttachmentPartError(cause))
    /\ UNCHANGED <<ctxErr, dropped, helper, calls, transport, client, smtpClient, ctx, req, msg, httpReq, resp, network>>

\* a variant of the assembly that validates the addresses first, and returns the error
\* of ValidateEmail or ValidateEmailList
SMTPBuildDocumentValidating ==
    /\ transport = "smtp" /\ pc = "start"
    /\ ~msg.isNil
    /\ \E e \in {IF ValidateEmail(msg.From) # NilErr THEN ValidateEmail(msg.From)
                 ELSE ValidateEmailList(msg.To)} :
          IF e # NilErr
          THEN /\ outcome' = [kind |-> "construction", detail |-> "invalid email address"]
               /\ Return(e)
          ELSE /\ \E b \in Boundaries, customOrder \in Orders(DOMAIN msg.Headers.m) :
                     \E headers \in {Headers(msg, b, customOrder)}, body \in {DocumentBody(msg, b)} :
                         \E writeOrder \in Orders(DOMAIN headers) :
                             buffer' = WriteHeaders(headers, writeOrder) \o body
               /\ pc' = "send"
               /\ UNCHANGED <<outcome, err>>
    /\ UNCHANGED <<ctxErr, dropped, helper, calls, transport, client, smtpClient, ctx, req, msg, httpReq, resp, network>>

\* smtp.go lines 55-109: the document is assembled in buffer
SMTPBuildDocument ==
    /\ transport = "smtp" /\ pc = "start"
    /\ ~msg.isNil
    /\ \E b \in Boundaries, customOrder \in Orders(DOMAIN msg.Headers.m) :
          \E headers \in {Headers(msg, b, customOrder)}, body \in {DocumentBody(msg, b)} :
              \E writeOrder \in Orders(DOMAIN headers) :
                  buffer' = WriteHeaders(headers, writeOrder) \o body
    /\ pc' = "send"
    /\ UNCHANGED <<ctxErr, dropped, helper, calls, transport, client, smtpClient, ctx, req, msg, httpReq, resp, outcome, network, err>>

\* a failed smtp.SendMail is tried a second time
SMTPSendMailFailsRetrying ==
    /\ transport = "smtp" /\ pc = "send"
    /\ network' = network \o <<SendMail(smtpClient, msg, buffer), SendMail(smtpClient, msg, buffer)>>
    /\ \E cause \in SendMailTransportFailures :
          /\ outcome' = [kind |-> "transport", detail |-> cause]
          /\ Return(SendMailError(cause))
    /\ UNCHANGED <<ctxErr, dropped, helper, calls, transport, client, smtpClient, ctx, req, msg, httpReq, resp>>

\* smtp.go lines 112-121: smtp.SendMail cannot complete the network call
SMTPSendMailFails ==
    /\ transport = "smtp" /\ pc = "send"
    /\ network' = Append(network, SendMail(smtpClient, msg, buffer))
    /\ \E cause \in SendMailTransportFailures :
          /\ outcome' = [kind |-> "transport", detail |-> cause]
          /\ Return(SendMailError(cause))
    /\ UNCHANGED <<ctxErr, dropped, helper, calls, transport, client, smtpClient, ctx, req, msg, httpReq, resp>>

\* smtp.go lines 112-121: the relay answers and rejects
SMTPSendMailRejected ==
    /\ transport = "smtp" /\ pc = "send"
    /\ network' = Append(network, SendMail(smtpClient, msg, buffer))
    /\ \E cause \in SendMailRejections :
          /\ outcome' = [kind |-> "peer", detail |-> cause]
          /\ Return(SendMailError(cause))
    /\ UNCHANGED <<ctxErr, dropped, helper, calls, transport, client, smtpClient, ctx, req, msg, httpReq, resp>>

\* smtp.go lines 112-123: the relay accepts the message
SMTPSendMailAccepted ==
    /\ transport = "smtp" /\ pc = "send"
    /\ network' = Append(network, SendMail(smtpClient, msg, buffer))
    /\ outcome' = [kind |-> "peer", detail |-> "250 OK"]
    /\ Return(NilErr)
    /\ UNCHANGED <<ctxErr, dropped, helper, calls, transport, client, smtpClient, ctx, req, msg, httpReq, resp>>

\* the steps of Client.SendEmail, and of the context it was given
RestNext ==
    \/ ContextDone
    \/ ClientMarshalFails
    \/ ClientNewRequestFails
    \/ ClientBuildRequest
    \/ ClientDoFails
    \/ ClientDoResponds

Next ==
    \/ RestNext
    \/ SMTPNilMessagePanics
    \/ SMTPHTMLPartFails
    \/ SMTPAttachmentPartFails
    \/ SMTPBuildDocument
    \/ SMTPSendMailFails
    \/ SMTPSendMailRejected
    \/ SMTPSendMailAccepted

Spec == Init /\ [][Next]_vars

----------------------------------------------------------------------------
(* SMTPClient.SendEmail over a writer that can fail: the errors of htmlPart.Write,
   encoder.Write, encoder.Close and writer.Close are not looked at *)

FaultInit == Init /\ transport = "smtp" /\ msg \in AttachmentMessages

\* the writes of smtp.go lines 91-109 that may fail for a message: the step, and the
\* attachment it belongs to (0: none)
FailingWrites(m) ==
    {[step |-> "htmlPart.Write", attachment |-> 0], [step |-> "writer.Close", attachment |-> 0]}
        \cup {[step |-> "encoder.Write", attachment |-> i] :
                 i \in {i \in 1..Len(m.Attachments) : m.Attachments[i].Content # <<>>}}
        \cup {[step |-> "encoder.Close", attachment |-> i] :
                 i \in {i \in 1..Len(m.Attachments) : Len(m.Attachments[i].Content) % 3 # 0}}

\* what follows the header lines in buffer when the write f fails and writes nothing:
\* the HTML is missing, or the base64 text of the attachment, or the last group of
\* it, or the closing delimiter
DocumentBodyAfterFailure(m, b, f) ==
    CASE f.step = "htmlPart.Write" -> DocumentBody([m EXCEPT !.HTML = <<>>], b)
      [] f.step = "encoder.Write" ->
            DocumentBody([m EXCEPT !.Attachments[f.attachment].Content = <<>>], b)
      [] f.step = "encoder.Close" ->
            DocumentBody([m EXCEPT !.Attachments[f.attachment].Content =
                                       SubSeq(@, 1, Len(@) - (Len(@) % 3))], b)
      [] OTHER ->
            SubSeq(DocumentBody(m, b), 1, Len(DocumentBody(m, b)) - Len(WriterClose(b)))

\* smtp.go lines 55-109: a write fails, its error is dropped, and the call goes on to
\* send what buffer holds
SMTPBuildDocumentDroppingError ==
    /\ transport = "smtp" /\ pc = "start"
    /\ ~msg.isNil
    /\ \E f \in FailingWrites(msg), cause \in PartFailures :
          /\ dropped' = Append(dropped, [step |-> f.step, attachment |-> f.attachment,
                                         cause |-> cause])
          /\ \E b \in Boundaries, customOrder \in Orders(DOMAIN msg.Headers.m) :
                \E headers \in {Headers(msg, b, customOrder)},
                   body \in {DocumentBodyAfterFailure(msg, b, f)} :
                    \E writeOrder \in Orders(DOMAIN headers) :
                        buffer' = WriteHeaders(headers, writeOrder) \o body
    /\ pc' = "send"
    /\ UNCHANGED <<ctxErr, helper, calls, transport, client, smtpClient, ctx, req, msg, httpReq,
                   resp, outcome, network, err>>

FaultNext ==
    \/ SMTPHTMLPartFails
    \/ SMTPAttachmentPartFails
    \/ SMTPBuildDocument
    \/ SMTPBuildDocumentDroppingError
    \/ SMTPSendMailFails
    \/ SMTPSendMailRejected
    \/ SMTPSendMailAccepted

FaultSpec == FaultInit /\ [][FaultNext]_vars

----------------------------------------------------------------------------
(* Client.SendEmail alone, with the progress its goroutine and its timers make *)

RestInit == Init /\ transport = "rest"

\* client.go lines 40-56: the steps of the call that wait for nothing
ClientLocalStep == ClientMarshalFails \/ ClientNewRequestFails \/ ClientBuildRequest

\* client.go lines 58-61: http.Client.Do returns because the context is done or the
\* Timeout of the client has passed
ClientDoTimerFires ==
    ClientDoFails /\ outcome'.detail \in ContextErrors \cup {ClientTimeoutExceeded}

\* the call runs, and a timer that has fired ends the wait of http.Client.Do; the
\* network and the server owe nothing
RestSpec ==
    RestInit /\ [][RestNext]_vars /\ WF_vars(ClientLocalStep) /\ WF_vars(ClientDoTimerFires)

----------------------------------------------------------------------------
(* The call of a helper *)

\* the variables of the SendEmail calls
sendVars == <<transport, pc, client, smtpClient, ctx, req, msg, httpReq, buffer, resp,
              outcome, network, err, ctxErr, dropped, calls>>

HelperInit ==
    /\ transport = "none"
    /\ pc = "idle"
    /\ client = NewClient(APIKey)
    /\ smtpClient = NewSMTPClient(APIKey)
    /\ ctx = "background" /\ req = NilRequest /\ msg = NoMessage
    /\ httpReq = NoRequest
    /\ buffer = <<>>
    /\ resp = NoResponse
    /\ outcome = NoOutcome
    /\ network = <<>>
    /\ err = NilErr
    /\ ctxErr = "nil"
    /\ dropped = <<>>
    /\ calls = NoCalls
    /\ helper \in HelperCalls

HelperReturn(attachment, e) ==
    helper' = [helper EXCEPT !.pc = "done", !.attachment = attachment, !.err = e]

\* helpers.go lines 52-58
CallValidateEmail ==
    /\ helper.op = "ValidateEmail" /\ helper.pc = "start"
    /\ HelperReturn(ZeroAttachment, ValidateEmail(helper.email))
    /\ UNCHANGED sendVars

\* helpers.go lines 61-68
CallValidateEmailList ==
    /\ helper.op = "ValidateEmailList" /\ helper.pc = "start"
    /\ HelperReturn(ZeroAttachment, ValidateEmailList(helper.emails))
    /\ UNCHANGED sendVars

\* helpers.go lines 13-30
CallNewAttachmentFromFile ==
    /\ helper.op = "NewAttachmentFromFile" /\ helper.pc = "start"
    /\ \E r \in {NewAttachmentFromFile(helper.path, helper.source)} :
          HelperReturn(r.attachment, r.err)
    /\ UNCHANGED sendVars

\* helpers.go lines 33-49
CallNewAttachmentFromReader ==
    /\ helper.op = "NewAttachmentFromReader" /\ helper.pc = "start"
    /\ \E r \in {NewAttachmentFromReader(helper.source, helper.path)} :
          HelperReturn(r.attachment, r.err)
    /\ UNCHANGED sendVars

HelperNext ==
    \/ CallValidateEmail
    \/ CallValidateEmailList
    \/ CallNewAttachmentFromFile
    \/ CallNewAttachmentFromReader

HelperSpec == HelperInit /\ [][HelperNext]_vars

----------------------------------------------------------------------------
(* Calls that share a client: each call runs the steps of SendEmail on its own locals *)

ConcInit ==
    /\ transport \in {"rest", "smtp"}
    /\ pc = "shared"
    /\ client = NewClient(APIKey)
    /\ smtpClient = NewSMTPClient(APIKey)
    /\ ctx = "background" /\ req = NilRequest /\ msg = NoMessage
    /\ httpReq = NoRequest
    /\ buffer = <<>>
    /\ resp = NoResponse
    /\ outcome = NoOutcome
    /\ network = <<>>
    /\ err = NilErr
    /\ ctxErr = "nil"
    /\ dropped = <<>>
    /\ helper = NoHelper
    /\ IF transport = "rest"
       THEN calls \in {[i \in CallIds |-> Call(r[i], NoMessage)] : r \in [CallIds -> SharedRequests]}
       ELSE calls \in {[i \in CallIds |-> Call(NilRequest, m[i])] : m \in [CallIds -> SharedMessages]}

\* the variables a call on a shared client leaves alone
sharedVars == <<transport, pc, client, smtpClient, ctx, req, msg, httpReq, buffer, resp,
                outcome, err, ctxErr, dropped, helper>>

\* a buffer kept in one place for every call
SharedBuffer(i) == calls[1].buffer

\* smtp.go line 55: the buffer is a local of the call
LocalBuffer(i) == calls[i].buffer

\* client.go lines 40-53, smtp.go lines 84-102: a step of the construction fails
ConcBuildFails(i) ==
    /\ calls[i].pc = "start"
    /\ \E e \in IF transport = "rest"
                THEN {Errorf("error marshaling request: ", <<c>>, c) : c \in MarshalFailures}
                ELSE {HTMLPartError(c) : c \in PartFailures}
                         \cup {AttachmentPartError(c) :
                                  c \in IF calls[i].msg.Attachments = <<>> THEN {} ELSE PartFailures} :
          calls' = [calls EXCEPT ![i] = [@ EXCEPT !.pc = "done", !.err = e]]
    /\ UNCHANGED <<sharedVars, network>>

\* client.go lines 40-56, smtp.go lines 55-109: the request or the document is built
ConcBuild(i) ==
    /\ calls[i].pc = "start"
    /\ IF transport = "rest"
       THEN calls' = [calls EXCEPT ![i] =
                        [@ EXCEPT !.pc = "submit",
                                  !.httpReq = NewRequest(client, Marshal(calls[i].req))]]
       ELSE \E b \in Boundaries, customOrder \in Orders(DOMAIN calls[i].msg.Headers.m) :
               \E headers \in {Headers(calls[i].msg, b, customOrder)} :
                   \E writeOrder \in SampleOrders(DOMAIN headers) :
                       calls' = [calls EXCEPT ![i] =
                                   [@ EXCEPT !.pc = "submit",
                                             !.draw = [b |-> b, customOrder |-> customOrder,
                                                       writeOrder |-> writeOrder],
                                             !.buffer = WriteHeaders(headers, writeOrder)
                                                            \o DocumentBody(calls[i].msg, b)]]
    /\ UNCHANGED <<sharedVars, network>>

\* client.go lines 58-74, smtp.go lines 112-123: the network call and its result
ConcSubmit(i) ==
    /\ calls[i].pc = "submit"
    /\ network' = Append(network,
                         [call |-> i,
                          sub |-> IF transport = "rest" THEN calls[i].httpReq
                                  ELSE SendMail(smtpClient, calls[i].msg, LocalBuffer(i))])
    /\ \E p \in Peers(transport) :
          calls' = [calls EXCEPT ![i] =
                      [@ EXCEPT !.pc = "done", !.peer = p,
                                !.err = CASE p.kind = "response" -> ResponseResult(p.status, p.body)
                                          [] p.kind = "accepted" -> NilErr
                                          [] OTHER -> IF transport = "rest"
                                                      THEN SendRequestError(p.cause)
                                                      ELSE SendMailError(p.cause)]]
    /\ UNCHANGED sharedVars

ConcNext ==
    \E i \in CallIds :
        \/ ConcBuildFails(i)
        \/ ConcBuild(i)
        \/ ConcSubmit(i)

ConcSpec == ConcInit /\ [][ConcNext]_vars

----------------------------------------------------------------------------
(* One SendEmail call whose addresses, HTML and custom header keys are spelled out
   character by character: addresses with and without "@", HTML with "=", bytes
   above 127, several lines and a long line, custom keys that differ from a standard
   key or from each other in case only *)

\* addresses: a@b, and ab, which ValidateEmail rejects
ValidAddress == <<"a", "@", "b">>
InvalidAddress == <<"a", "b">>
WireAddresses == {ValidAddress, InvalidAddress}

\* a line of 100 characters, longer than the 76 of a quoted-printable line
LongLine == "0123456789012345678901234567890123456789012345678901234567890123456789012345678901234567890123456789"

\* HTML: plain, with a byte above 127 and "=", "=" and an empty line, a long line, empty
WireHTMLs ==
    {DefaultHTML, <<"<p>caf", BadByte, "=", "</p>">>, <<"a", "=", "b", CRLF, CRLF, "c">>,
     <<"<p>", LongLine, "</p>">>, <<>>}

\* custom header keys: x-id and X-Id name one header, from and To the standard ones
CustomKeyXIdLower == <<"x", "-", "i", "d">>
CustomKeyFromLower == <<"f", "r", "o", "m">>
CustomKeyTo == <<"T", "o">>

WireHeaderMaps ==
    {MakeMap((CustomKeyXIdLower :> <<"1">>) @@ (CustomKeyXId :> <<"2">>)),
     MakeMap(CustomKeyFromLower :> <<"x", "@", "z">>),
     MakeMap(CustomKeyTo :> <<"y", "@", "z">>),
     MakeMap((CustomKeyFromLower :> <<"x", "@", "z">>) @@ (CustomKeyTo :> <<"y", "@", "z">>)),
     MakeMap(CustomKeyContentType :> <<"text/plain">>)}

WireRequests ==
    {EmailRequest(from, to, DefaultSubject, DefaultHTML, <<>>, <<>>, NilMap) :
        from \in WireAddresses \cup {<<>>}, to \in WireAddresses \cup {<<>>}}

\* messages that vary the addresses, the HTML and the attachment, and the custom headers
WireAddressMessages ==
    {EmailMessage(from, to, DefaultSubject, DefaultHTML, name, <<>>, <<>>, NilMap) :
        from \in WireAddresses, to \in ListsUpTo(WireAddresses, 2), name \in Names}

WireBodyMessages ==
    {EmailMessage(ValidAddress, <<ValidAddress>>, DefaultSubject, html, <<>>, <<>>, attachments, NilMap) :
        html \in WireHTMLs, attachments \in {<<>>, <<ReportPDF>>}}

WireHeaderMessages ==
    {EmailMessage(ValidAddress, <<ValidAddress, InvalidAddress>>, DefaultSubject, DefaultHTML,
                  <<"Ann">>, replyTo, <<>>, headers) :
        replyTo \in {<<>>}, headers \in WireHeaderMaps}

WireMessages == WireAddressMessages \cup WireBodyMessages \cup WireHeaderMessages

WireInit ==
    /\ transport \in {"rest", "smtp"}
    /\ pc = "start"
    /\ client = NewClient(APIKey)
    /\ smtpClient = NewSMTPClient(APIKey)
    /\ IF transport = "rest"
       THEN ctx \in {"nil", "background"} /\ req \in WireRequests /\ msg = NoMessage
       ELSE ctx = "background" /\ req = NilRequest /\ msg \in WireMessages
    /\ httpReq = NoRequest
    /\ buffer = <<>>
    /\ resp = NoResponse
    /\ outcome = NoOutcome
    /\ network = <<>>
    /\ err = NilErr
    /\ ctxErr = "nil"
    /\ dropped = <<>>
    /\ helper = NoHelper
    /\ calls = NoCalls

\* the steps of Client.SendEmail with a context that stays alive, and of
\* SMTPClient.SendEmail for a message that is not nil
WireNext ==
    \/ ClientMarshalFails
    \/ ClientNewRequestFails
    \/ ClientBuildRequest
    \/ ClientDoFails
    \/ ClientDoResponds
    \/ SMTPHTMLPartFails
    \/ SMTPAttachmentPartFails
    \/ SMTPBuildDocument
    \/ SMTPSendMailFails
    \/ SMTPSendMailRejected
    \/ SMTPSendMailAccepted

WireSpec == WireInit /\ [][WireNext]_vars

----------------------------------------------------------------------------
(* Properties of the REST transport *)

RestDone == transport = "rest" /\ pc = "done"

\* the response is there: the HTTP round trip completed
RoundTripCompleted == outcome.kind = "peer" /\ resp # NoResponse

\* C1: Client.SendEmail returns nil if and only if the HTTP round trip completed and
\* the status of the response is exactly 200; every other status, 201 and 204
\* included, gives an error.
C1_NilIffStatus200 ==
    RestDone => ((err = NilErr) <=> (RoundTripCompleted /\ resp.StatusCode = 200))

C1_Witness_OtherSuccessStatusIsAnError ==
    RestDone /\ RoundTripCompleted /\ resp.StatusCode = 204 /\ err # NilErr

\* a response whose status is not 200 has been handled
RestRejected == RestDone /\ RoundTripCompleted /\ resp.StatusCode # 200

\* the body is one well-formed JSON document
ParsesAsJSON(body) == body.shape = "json"

\* the body is a JSON object with a string member "error"
HasErrorString(body) ==
    /\ ParsesAsJSON(body)
    /\ body.val.kind = "object"
    /\ "error" \in DOMAIN body.val.obj
    /\ body.val.obj["error"].kind = "string"

ErrorString(body) == body.val.obj["error"].str

NoErrorText(body) ==
    /\ ParsesAsJSON(body)
    /\ \/ body.val.kind = "null"
       \/ /\ body.val.kind = "object"
          /\ \/ "error" \notin DOMAIN body.val.obj
             \/ body.val.obj["error"] = JString(<<>>)

\* C3: for every response whose status is not 200 the error carries the server's
\* detail when there is one and a status description otherwise: a body that parses
\* as JSON and supplies no error text gives a message that contains the digits of
\* the status.
C3_StatusWhenNoErrorText ==
    RestRejected =>
        /\ (HasErrorString(resp.Body) /\ ErrorString(resp.Body) # <<>>)
              => Contains(err.msg, ErrorString(resp.Body))
        /\ NoErrorText(resp.Body) => Contains(err.msg, Itoa(resp.StatusCode))

\* json decoding of a request body, as the receiver of the request does it
Unmarshal(v) ==
    LET str(k) == IF k \in DOMAIN v.obj THEN v.obj[k].str ELSE <<>>
    IN  [isNil |-> FALSE, From |-> str("from"), To |-> str("to"), Subject |-> str("subject"),
         HTML |-> str("html"), Name |-> str("name"), ReplyTo |-> str("reply_to"),
         Headers |-> IF "headers" \in DOMAIN v.obj THEN MakeMap(v.obj["headers"].obj)
                     ELSE NilMap]

\* two requests with the same fields; a nil and an empty header map are both empty
SameRequest(a, b) ==
    /\ a.From = b.From /\ a.To = b.To /\ a.Subject = b.Subject /\ a.HTML = b.HTML
    /\ a.Name = b.Name /\ a.ReplyTo = b.ReplyTo
    /\ a.Headers.m = b.Headers.m

\* the JSON body v holds request r: the four keys always, the optional keys exactly
\* when their field is not empty, every value that of its field, no null, no other key
BodyHoldsRequest(r, v) ==
    /\ v.kind = "object"
    /\ {"from", "to", "subject", "html"} \subseteq DOMAIN v.obj
    /\ ("name" \in DOMAIN v.obj) <=> (r.Name # <<>>)
    /\ ("reply_to" \in DOMAIN v.obj) <=> (r.ReplyTo # <<>>)
    /\ ("headers" \in DOMAIN v.obj) <=> (DOMAIN r.Headers.m # {})
    /\ DOMAIN v.obj \subseteq {"from", "to", "subject", "html", "name", "reply_to", "headers"}
    /\ \A k \in DOMAIN v.obj : v.obj[k].kind # "null"
    /\ \A k \in DOMAIN v.obj \ {"headers"} : v.obj[k].kind = "string"
    /\ "headers" \in DOMAIN v.obj => v.obj["headers"].kind = "object"
    /\ SameRequest(Unmarshal(v), r)

\* every string of the request is valid UTF-8
ValidRequest(r) ==
    /\ \A s \in {r.From, r.To, r.Subject, r.HTML, r.Name, r.ReplyTo} : ValidUTF8(s)
    /\ \A k \in DOMAIN r.Headers.m : ValidUTF8(k) /\ ValidUTF8(r.Headers.m[k])

RestSent == transport = "rest" /\ network # <<>> /\ ~req.isNil

\* C10 as stated: for every EmailRequest the JSON body sent holds the request, every
\* value unchanged.
C10_BodyHoldsEveryRequest ==
    RestSent => BodyHoldsRequest(req, network[1].body)

\* C10, amended: for every EmailRequest whose strings are valid UTF-8 the JSON body
\* sent holds from, to, subject and html always, name, reply_to and headers exactly
\* when the field is not empty, each with the field's value unchanged, no null and no
\* other key; decoding the body gives back the request.
C10_BodyHoldsValidRequest ==
    (RestSent /\ ValidRequest(req)) => BodyHoldsRequest(req, network[1].body)

C10_Witness_OptionalFields ==
    /\ RestSent
    /\ ValidRequest(req)
    /\ req.Name # <<>> /\ req.ReplyTo = <<>> /\ req.Subject = <<>>
    /\ DOMAIN req.Headers.m # {}
    /\ DOMAIN network[1].body.obj = {"from", "to", "subject", "html", "name", "headers"}

----------------------------------------------------------------------------
(* Reading a document back: lines, header block, MIME parts *)

RECURSIVE Lines(_)
\* the lines of a text: the runs of atoms that a CRLF ends
Lines(text) ==
    IF \A i \in 1..Len(text) : text[i] # CRLF THEN <<>>
    ELSE LET i == CHOOSE i \in 1..Len(text) :
                    text[i] = CRLF /\ \A j \in 1..(i - 1) : text[j] # CRLF
         IN  <<SubSeq(text, 1, i - 1)>> \o Lines(SubSeq(text, i + 1, Len(text)))

\* the index of the first empty line of a sequence of lines (0: none)
FirstBlank(lines) ==
    IF \A k \in 1..Len(lines) : lines[k] # <<>> THEN 0
    ELSE CHOOSE k \in 1..Len(lines) : lines[k] = <<>> /\ \A j \in 1..(k - 1) : lines[j] # <<>>

\* a header line "key: value": its key and its value
IsHeaderLine(line) == \E i \in 1..Len(line) : line[i] = ": "
Separator(line) == CHOOSE i \in 1..Len(line) : line[i] = ": " /\ \A j \in 1..(i - 1) : line[j] # ": "
LineKey(line) == SubSeq(line, 1, Separator(line) - 1)
LineValue(line) == SubSeq(line, Separator(line) + 1, Len(line))

\* the header lines of a document or of a part: the lines before its first empty line
HeaderBlock(lines) == SubSeq(lines, 1, FirstBlank(lines) - 1)
\* the lines after the first empty line
AfterHeaders(lines) == SubSeq(lines, FirstBlank(lines) + 1, Len(lines))

\* the values of the header lines of a block whose key is the given name, compared
\* as MIME does, in canonical form
ValuesOf(block, name) ==
    {LineValue(block[k]) : k \in {k \in 1..Len(block) :
        IsHeaderLine(block[k]) /\ CanonicalMIMEHeaderKey(LineKey(block[k])) = name}}

\* the number of header lines of a block with the given name
CountOf(block, name) ==
    Cardinality({k \in 1..Len(block) :
        IsHeaderLine(block[k]) /\ CanonicalMIMEHeaderKey(LineKey(block[k])) = name})

\* a delimiter line of boundary b, and the line that closes the document
Delimiter(b) == <<"--">> \o b
CloseDelimiter(b) == <<"--">> \o b \o <<"--">>
IsBoundaryLine(line) == line # <<>> /\ line[1] = "--"

\* the lines of the part that starts after delimiter line d: up to the next boundary line
PartLines(lines, d) ==
    LET next == CHOOSE k \in (d + 1)..Len(lines) :
                    IsBoundaryLine(lines[k]) /\ \A j \in (d + 1)..(k - 1) : ~IsBoundaryLine(lines[j])
    IN  SubSeq(lines, d + 1, next - 1)

\* the body of a part: its lines after the header block, a CRLF between two lines
PartBody(part) == Join(AfterHeaders(part), CRLF)

\* the lines of the body of a document are a multipart body of boundary b: a
\* delimiter line first, the close delimiter last and nowhere else, and every other
\* line that starts with "--" a delimiter line
IsMultipartBody(lines, b) ==
    /\ Len(lines) >= 2
    /\ lines[1] = Delimiter(b)
    /\ lines[Len(lines)] = CloseDelimiter(b)
    /\ \A k \in 1..(Len(lines) - 1) : IsBoundaryLine(lines[k]) => lines[k] = Delimiter(b)

\* the parts of a multipart body of boundary b, in order
Parts(lines, b) ==
    LET D == {k \in 1..Len(lines) : lines[k] = Delimiter(b)}
        nth(i) == CHOOSE k \in D : Cardinality({j \in D : j < k}) = i - 1
    IN  [i \in 1..Cardinality(D) |-> PartLines(lines, nth(i))]

----------------------------------------------------------------------------
(* Properties of both transports *)

Done == pc = "done"

\* the labels a transport gives to the errors of its transport failures
TransportFailureLabels ==
    IF transport = "rest" THEN {SendRequestError(cause).label : cause \in DoFailures}
    ELSE {SendMailError(cause).label : cause \in SendMailTransportFailures}

\* the peer answered and the call failed: a protocol failure
ProtocolFailure == Done /\ outcome.kind = "peer" /\ err # NilErr

\* C4: in each transport a protocol failure (the peer answers and rejects) is
\* reported under another label than a transport failure (the network call does not
\* complete) of the same operation.
C4_TransportAndProtocolLabelsDiffer ==
    ProtocolFailure => err.label \notin TransportFailureLabels

\* C5: a SendEmail call hands at most one submission to the network, whatever comes
\* of it, and exactly one when the request or message was built.
C5_AtMostOneSubmission ==
    /\ Len(network) <= 1
    /\ (Done /\ outcome.kind # "construction") => Len(network) = 1

C5_Witness_FailedAttemptNotRepeated ==
    Done /\ outcome.kind \in {"transport", "peer"} /\ err # NilErr /\ Len(network) = 1

\* C6: when building the request or the message fails, SendEmail returns that error,
\* nothing has been submitted, and nothing is submitted afterwards: the call is over.
C6_ConstructionFailureSendsNothing ==
    outcome.kind = "construction" =>
        /\ Done
        /\ err # NilErr
        /\ err.cause = outcome.detail
        /\ network = <<>>
        /\ ~ENABLED Next

C6_Witness_AttachmentPartFails ==
    /\ transport = "smtp"
    /\ outcome.kind = "construction"
    /\ err = AttachmentPartError("short write")
    /\ Len(msg.Attachments) = 2

----------------------------------------------------------------------------
(* Properties of the SMTP transport *)

SmtpSent == transport = "smtp" /\ network # <<>>
RestBody == network[1].body

\* the document handed to smtp.SendMail, as lines
SentLines == Lines(network[1].msg)

\* the Content-Type line of the header block declares multipart/mixed with a
\* boundary, and the body is a multipart body of that boundary
IsMultipartMixed(lines) ==
    /\ FirstBlank(lines) > 0
    /\ CountOf(HeaderBlock(lines), KeyContentType) = 1
    /\ \A v \in ValuesOf(HeaderBlock(lines), KeyContentType) :
          /\ v # <<>>
          /\ v[1] = "multipart/mixed; boundary="
          /\ Tail(v) # <<>>
          /\ IsMultipartBody(AfterHeaders(lines), Tail(v))

\* C7: for every message, whatever its custom headers, the document submitted is a
\* multipart/mixed document: its header block declares multipart/mixed with a
\* boundary, and that boundary delimits every part and closes the document.
C7_DocumentIsMultipartMixed ==
    SmtpSent => IsMultipartMixed(SentLines)

\* the boundary a multipart body opens with
OpeningBoundary(body) == Tail(body[1])

\* a part declares the given value, once, for the given header
Declares(part, name, value) ==
    /\ CountOf(HeaderBlock(part), name) = 1
    /\ ValuesOf(HeaderBlock(part), name) = {value}

\* a part is the attachment a: base64, a disposition that names a's file, a body that
\* decodes to a's content
IsAttachmentPart(part, a) ==
    /\ Declares(part, KeyContentTransferEncoding, <<"base64">>)
    /\ CountOf(HeaderBlock(part), KeyContentDisposition) = 1
    /\ \A v \in ValuesOf(HeaderBlock(part), KeyContentDisposition) :
          /\ v # <<>>
          /\ v[1] = "attachment; filename="
          /\ IsQuoted(Tail(v))
          /\ Unquote(Tail(v)) = a.Filename
    /\ IsBase64(PartBody(part))
    /\ Base64Decode(PartBody(part)) = a.Content

\* the body of the document has one text/html part and then one part for each
\* attachment, in the order of the list
HasPartsOf(m, lines) ==
    LET body == AfterHeaders(lines)
    IN  /\ FirstBlank(lines) > 0
        /\ body # <<>>
        /\ IsBoundaryLine(body[1])
        /\ IsMultipartBody(body, OpeningBoundary(body))
        /\ LET parts == Parts(body, OpeningBoundary(body))
           IN  /\ Len(parts) = Len(m.Attachments) + 1
               /\ Declares(parts[1], KeyContentType, <<"text/html; charset=UTF-8">>)
               /\ \A i \in 1..Len(m.Attachments) :
                     IsAttachmentPart(parts[i + 1], m.Attachments[i])

C9_ReplyToExactlyWhenSet ==
    /\ RestSent =>
          IF req.ReplyTo # <<>>
          THEN "reply_to" \in DOMAIN RestBody.obj /\ RestBody.obj["reply_to"] = JString(req.ReplyTo)
          ELSE "reply_to" \notin DOMAIN RestBody.obj
    /\ SmtpSent =>
          IF msg.ReplyTo # <<>>
          THEN /\ CountOf(HeaderBlock(SentLines), KeyReplyTo) = 1
               /\ ValuesOf(HeaderBlock(SentLines), KeyReplyTo) = {msg.ReplyTo}
          ELSE CountOf(HeaderBlock(SentLines), KeyReplyTo) = 0

----------------------------------------------------------------------------
(* Properties of the helpers *)

HelperDone(op) == helper.op = op /\ helper.pc = "done"

\* the address has an "@" somewhere
HasAt(email) == "@" \in Range(email)

\* C11: ValidateEmailList(L) returns nil exactly when ValidateEmail returns nil for every
\* member of L, which is exactly when every member contains "@"; the empty list is
\* accepted, and one member without "@" rejects the list wherever it stands.
C11_ListValidIffEveryMemberValid ==
    /\ HelperDone("ValidateEmail") => (helper.err = NilErr <=> HasAt(helper.email))
    /\ HelperDone("ValidateEmailList") =>
          /\ helper.err = NilErr <=>
                \A i \in 1..Len(helper.emails) : ValidateEmail(helper.emails[i]) = NilErr
          /\ helper.err = NilErr <=> \A i \in 1..Len(helper.emails) : HasAt(helper.emails[i])
          /\ helper.emails = <<>> => helper.err = NilErr

C11_Witness_LastMemberRejectsList ==
    /\ HelperDone("ValidateEmailList")
    /\ Len(helper.emails) = 3
    /\ HasAt(helper.emails[1]) /\ HasAt(helper.emails[2]) /\ ~HasAt(helper.emails[3])
    /\ helper.err # NilErr

\* an attachment helper returned without error
AttachmentReturned ==
    /\ helper.op \in {"NewAttachmentFromFile", "NewAttachmentFromReader"}
    /\ helper.pc = "done"
    /\ helper.err = NilErr

\* the extension of the name has a registered type
Registered(name) == TypeByExtension(Ext(name)) # <<>>

\* C12: an Attachment returned without error by either helper has a ContentType that is
\* not empty: the type registered for the extension of the name when there is one, and
\* application/octet-stream when the extension is unknown or absent.
C12_ContentTypeNeverEmpty ==
    AttachmentReturned =>
        /\ helper.attachment.ContentType # <<>>
        /\ Registered(helper.path) =>
              helper.attachment.ContentType = TypeByExtension(Ext(helper.path))
        /\ ~Registered(helper.path) =>
              helper.attachment.ContentType = <<"application/octet-stream">>

C12_Witness_UnknownExtensionFallsBack ==
    /\ AttachmentReturned
    /\ Ext(helper.path) = <<".", "x", "y", "z">>
    /\ helper.attachment.ContentType = <<"application/octet-stream">>

AttachmentHelperDone ==
    helper.op \in {"NewAttachmentFromFile", "NewAttachmentFromReader"} /\ helper.pc = "done"

\* C13: both attachment helpers fail when the read fails, with an error that is not nil
\* and the zero Attachment (nothing of what was read before the failure); when the read
\* succeeds, Content is every byte of the source.
C13_ReadFailureGivesZeroAttachment ==
    AttachmentHelperDone =>
        IF helper.source.failure # "nil"
        THEN /\ helper.err # NilErr
             /\ helper.err.cause = helper.source.failure
             /\ helper.attachment = ZeroAttachment
        ELSE /\ helper.err = NilErr
             /\ helper.attachment.Content = helper.source.data

C13_Witness_FailureAfterSomeBytes ==
    /\ HelperDone("NewAttachmentFromReader")
    /\ helper.source.failure # "nil"
    /\ helper.source.readBefore > 0
    /\ helper.attachment = ZeroAttachment

----------------------------------------------------------------------------
(* Properties of calls that share a client *)

\* what a call submits when it runs alone
AlonePayload(c) ==
    IF transport = "rest" THEN NewRequest(NewClient(APIKey), Marshal(c.req))
    ELSE SendMail(NewSMTPClient(APIKey), c.msg,
                  WriteHeaders(Headers(c.msg, c.draw.b, c.draw.customOrder), c.draw.writeOrder)
                      \o DocumentBody(c.msg, c.draw.b))

\* what a call returns when it runs alone and the peer does the same
AloneResult(c) ==
    CASE c.peer.kind = "response" -> ResponseResult(c.peer.status, c.peer.body)
      [] c.peer.kind = "accepted" -> NilErr
      [] c.peer.kind = "rejected" -> SendMailError(c.peer.cause)
      [] OTHER -> IF transport = "rest" THEN SendRequestError(c.peer.cause)
                  ELSE SendMailError(c.peer.cause)

\* the submissions of call i
SubmissionsOf(i) == {k \in 1..Len(network) : network[k].call = i}

\* C14: however SendEmail calls on one shared Client or SMTPClient interleave, no call
\* changes a field of the client, and each call submits the payload and returns the
\* result it would when run alone against the same answers of the peer.
C14_SharedClientCallsAreIndependent ==
    calls # NoCalls =>
        /\ client = NewClient(APIKey)
        /\ smtpClient = NewSMTPClient(APIKey)
        /\ \A i \in CallIds :
              /\ \A k \in SubmissionsOf(i) : network[k].sub = AlonePayload(calls[i])
              /\ (calls[i].pc = "done" /\ calls[i].peer # NoPeer) =>
                    /\ Cardinality(SubmissionsOf(i)) = 1
                    /\ calls[i].err = AloneResult(calls[i])

C14_Witness_InterleavedCallsOfTwoMessages ==
    /\ calls # NoCalls
    /\ transport = "smtp"
    /\ calls[1].msg # calls[2].msg
    /\ calls[1].pc = "done" /\ calls[2].pc = "done"
    /\ Len(network) = 2
    /\ network[1].call = 2 /\ network[2].call = 1
    /\ calls[1].err = NilErr /\ calls[2].err # NilErr

----------------------------------------------------------------------------
(* Properties of the REST call in time *)

\* http.Client.Do has the request and has received no response
RestWaiting == transport = "rest" /\ pc = "do"

\* the call returned the transport error that wraps the error of the context
ReturnedContextError ==
    /\ pc = "done"
    /\ outcome.kind = "transport"
    /\ err = SendRequestError(ctxErr)
    /\ err.cause = ctxErr

\* C15: when the context is cancelled or its deadline passes before a response has been
\* received, the call eventually returns a transport error that wraps the error of the
\* context, and it does not return nil.
C15_CancelledCallReturnsContextError ==
    /\ (RestWaiting /\ ctxErr # "nil") ~> ReturnedContextError
    /\ [][(RestWaiting /\ ctxErr # "nil" /\ pc' = "done") =>
             (err' # NilErr /\ err'.cause = ctxErr)]_vars

C15_Witness_DeadlinePassedWhileWaiting ==
    /\ transport = "rest" /\ pc = "done"
    /\ ctxErr = "context deadline exceeded"
    /\ resp = NoResponse
    /\ err = SendRequestError("context deadline exceeded")

\* C19: the client NewClient builds has a request timeout, so a call whose context is
\* never done returns all the same when the server never responds.
C19_ReturnsWithoutResponse ==
    /\ [](transport = "rest" => client.httpClient.Timeout > 0)
    /\ (RestWaiting /\ ctx = "background") ~> (pc = "done")

----------------------------------------------------------------------------
(* Properties of every operation *)

\* C16: every failure of SendEmail is returned as an error: the call never panics,
\* whatever the request or message, a nil one included.
C16_NeverPanics ==
    /\ pc # "panic"
    /\ outcome.kind # "panic"

----------------------------------------------------------------------------
(* Properties of the failures of the SMTP call *)

\* a step of the call failed: a part could not be created, a write failed and its error
\* was dropped, or the submission failed or was rejected
SmtpStepFailed ==
    \/ dropped # <<>>
    \/ outcome.kind \in {"construction", "transport"}
    \/ outcome.kind = "peer" /\ outcome.detail \in SendMailRejections

\* the labels that name the phases of the SMTP call
PhaseLabels ==
    {HTMLPartError("").label, AttachmentPartError("").label, SendMailError("").label}

----------------------------------------------------------------------------
(* Properties of the SMTP session *)

\* C18: every submission of SendEmail on a client of NewSMTPClient(k) goes to
\* mail.shoutbox.net, port 587, with plain authentication, username "shoutbox" and
\* password k, which are the Username and Password of the client.
C18_FixedRelayAndCredentials ==
    SmtpSent =>
        \A k \in 1..Len(network) :
            /\ network[k].addr = <<"mail.shoutbox.net", ":", "5", "8", "7">>
            /\ network[k].auth = PlainAuth(<<>>, <<"shoutbox">>, APIKey, <<"mail.shoutbox.net">>)
            /\ network[k].auth.username = smtpClient.Username
            /\ network[k].auth.password = smtpClient.Password
            /\ network[k].auth.host = smtpClient.Host

C18_Witness_AcceptedByTheRelay ==
    /\ SmtpSent
    /\ outcome = [kind |-> "peer", detail |-> "250 OK"]
    /\ network[1].auth.password = <<"key-1">>
    /\ network[1].to = <<Recipient(1), Recipient(2)>>

----------------------------------------------------------------------------
(* Properties of the order of the header block *)

\* the names of the header lines of a document, in the order they stand in, each in
\* its canonical spelling
HeaderNames(lines) ==
    [i \in 1..Len(HeaderBlock(lines)) |-> CanonicalMIMEHeaderKey(LineKey(HeaderBlock(lines)[i]))]

\* the names of the standard headers of a message, in the order the code sets them
StandardNames(m) ==
    [i \in 1..5 |-> CanonicalMIMEHeaderKey(
                        <<KeyFrom, KeyTo, KeySubject, KeyMIMEVersion, KeyContentType>>[i])]
        \o (IF m.ReplyTo # <<>> THEN <<KeyReplyTo>> ELSE <<>>)

\* C20: the header lines stand in the order From, To, Subject, MIME-Version,
\* Content-Type, Reply-To (when set), and after them the custom headers; the order of a
\* message is the same in every execution.
C20_HeaderLinesInFixedOrder ==
    (SmtpSent /\ FirstBlank(SentLines) > 0) =>
        /\ Len(HeaderNames(SentLines)) >= Len(StandardNames(msg))
        /\ SubSeq(HeaderNames(SentLines), 1, Len(StandardNames(msg))) = StandardNames(msg)

----------------------------------------------------------------------------
(* Properties of the custom headers *)

\* the header block has a line of exactly this key and exactly this value
HasLine(block, key, value) ==
    \E i \in 1..Len(block) : LineKey(block[i]) = key /\ LineValue(block[i]) = value

\* C21: every custom header of a message is written verbatim: for each (key, value) of
\* msg.Headers the header block has a line of exactly that key, as the caller spelled
\* it, and exactly that value.
C21_CustomHeadersVerbatim ==
    (SmtpSent /\ FirstBlank(SentLines) > 0) =>
        \A key \in DOMAIN msg.Headers.m :
            HasLine(HeaderBlock(SentLines), key, msg.Headers.m[key])

----------------------------------------------------------------------------
(* Properties of the HTML part *)

\* the parts of the document submitted
SentParts == Parts(AfterHeaders(SentLines), OpeningBoundary(AfterHeaders(SentLines)))

\* C22: the first part of every submitted document is the text/html part, labelled
\* Content-Transfer-Encoding: quoted-printable, and its body is exactly msg.HTML, byte
\* for byte, with no quoted-printable transformation, whatever the HTML.
C22_HTMLBodyIsRawUnderQuotedPrintableLabel ==
    SmtpSent =>
        \E parts \in {SentParts} :
            /\ Len(parts) >= 1
            /\ Declares(parts[1], KeyContentType, <<"text/html; charset=UTF-8">>)
            /\ Declares(parts[1], KeyContentTransferEncoding, <<"quoted-printable">>)
            /\ PartBody(parts[1]) = msg.HTML

C22_Witness_EqualsSignAndHighByteUnencoded ==
    /\ SmtpSent
    /\ "=" \in Range(msg.HTML) /\ BadByte \in Range(msg.HTML)
    /\ QuotedPrintable(msg.HTML) # msg.HTML
    /\ PartBody(SentParts[1]) = msg.HTML

----------------------------------------------------------------------------
(* Properties of the addresses *)

\* an address of the request or of the message fails validation
RestInvalid == ValidateEmail(req.From) # NilErr \/ ValidateEmail(req.To) # NilErr
SmtpInvalid == ValidateEmail(msg.From) # NilErr \/ ValidateEmailList(msg.To) # NilErr

\* the error SendEmail returns for what the network call gave: a failure of the
\* transport, or the answer of the peer
ResultOfPeer ==
    IF outcome.kind = "transport"
    THEN IF transport = "rest" THEN SendRequestError(outcome.detail) ELSE SendMailError(outcome.detail)
    ELSE IF transport = "rest" THEN ResponseResult(resp.StatusCode, resp.Body)
    ELSE IF outcome.detail = "250 OK" THEN NilErr ELSE SendMailError(outcome.detail)

\* C23: neither transport validates addresses: no call returns the error of
\* ValidateEmail, a request or message whose addresses fail validation can be built
\* and is submitted with these addresses, and once something was submitted the error
\* returned is the one the network call's outcome alone determines.
C23_InvalidAddressesAreSubmitted ==
    /\ err.label # ValidateEmail(InvalidAddress).label
    /\ (transport = "rest" /\ pc = "start" /\ NewRequestErr(ctx) = "nil") =>
          ENABLED (ClientBuildRequest /\ pc' = "do")
    /\ (transport = "smtp" /\ pc = "start") => ENABLED (SMTPBuildDocument /\ pc' = "send")
    /\ outcome.kind = "construction" => network = <<>>
    /\ (Done /\ outcome.kind # "construction") =>
          /\ Len(network) = 1
          /\ err = ResultOfPeer
          /\ transport = "rest" =>
                /\ network[1].body.obj["from"] = JString(req.From)
                /\ network[1].body.obj["to"] = JString(req.To)
          /\ transport = "smtp" => network[1].from = msg.From /\ network[1].to = msg.To

C23_Witness_InvalidAddressesAccepted ==
    /\ Done /\ err = NilErr
    /\ \/ transport = "rest" /\ ValidateEmail(req.From) # NilErr /\ ValidateEmail(req.To) # NilErr
       \/ transport = "smtp" /\ ValidateEmail(msg.From) # NilErr /\ Len(msg.To) = 2
              /\ ValidateEmailList(msg.To) # NilErr

----------------------------------------------------------------------------
(* Properties of the header names *)

\* the values the caller gave under a key that names the header n
CustomValuesFor(m, n) ==
    {m.Headers.m[k] : k \in {k \in DOMAIN m.Headers.m : CanonicalMIMEHeaderKey(k) = n}}

----------------------------------------------------------------------------
(* Properties of the envelope *)

\* the envelope of every submission is msg.From and msg.To
EnvelopeIsFromAndTo ==
    \A k \in 1..Len(network) : network[k].from = msg.From /\ network[k].to = msg.To

\* C25: every step of SMTPClient.SendEmail leaves the message as it was, and every
\* submission has msg.From as envelope sender and msg.To, in list order, as envelope
\* recipients, whatever Name, ReplyTo, Attachments and the custom headers are, a
\* custom From or To header included.
C25_EnvelopeAndMessageUnchanged ==
    [][transport = "smtp" => (msg' = msg /\ EnvelopeIsFromAndTo')]_vars

C25_Witness_CustomFromAndToHeaders ==
    /\ SmtpSent /\ Done
    /\ msg.Name # <<>>
    /\ DOMAIN msg.Headers.m = {CustomKeyFromLower, CustomKeyTo}
    /\ Len(msg.To) = 2 /\ msg.To[1] # msg.To[2]
    /\ network[1].from = msg.From /\ network[1].to = msg.To
    /\ ValuesOf(HeaderBlock(SentLines), KeyFrom) = {msg.Headers.m[CustomKeyFromLower]}
    /\ ValuesOf(HeaderBlock(SentLines), KeyTo) = {msg.Headers.m[CustomKeyTo]}
    /\ msg.Headers.m[CustomKeyFromLower] # msg.From

====
